---- MODULE Spec2Model ----
(***************************************************************************)
(* Model of the filesystem engine of the My Winter Car fix tool            *)
(* (src/main.py): the path predicate, the backup, the fix / revert rename  *)
(* handlers, the overlay merge and the installation scanner.               *)
(***************************************************************************)
EXTENDS Integers, Sequences, FiniteSets, TLC

(***************************************************************************)
(* Names and contents of the entries of one game folder                    *)
(***************************************************************************)

\* on_fix_clicked / on_revert_clicked: the four marker entries of a root.
exe_mwc == "mywintercar.exe"
data_mwc == "mywintercar_Data"
exe_msc == "mysummercar.exe"
data_msc == "mysummercar_Data"

Markers == {exe_mwc, data_mwc, exe_msc, data_msc}

\* Files ensure_fmf_useful_files writes into the overlay folder "fmf".
FmfNames == {"readme.txt"}

\* Every entry name a game folder of the model can hold.
Names == Markers \cup FmfNames

\* An entry is absent, or holds a content named by where it came from.
Absent == <<>>
GameContent(n) == <<"game", n>>
FmfContent(n) == <<"fmf", n>>
ZipContent(n) == <<"zip", n>>

Contents ==
    {Absent} \cup {GameContent(n) : n \in Names}
             \cup {FmfContent(n) : n \in FmfNames} \cup {ZipContent(n) : n \in Names}

Exists(t, n) == t[n] # Absent

EmptyTree == [n \in Names |-> Absent]

\* self.game_path is None, or the selected folder.
NoPath == "None"
Folder == "G"

\* create_backup returns None, or the backup folder (named by its timestamp).
None == 0

(***************************************************************************)
(* Bounds                                                                  *)
(***************************************************************************)

\* Seconds of wall clock the model lets pass (backup folders are named by second).
MaxClock == 2

(***************************************************************************)
(* State                                                                   *)
(***************************************************************************)
VARIABLES
    game_path,      \* MWCFixerWindow.game_path
    folderExists,   \* whether the selected folder exists on disk
    tree,           \* the entries of the selected folder: [Names -> Contents]
    fmf,            \* the overlay folder: [exists, files, dirs]
    backups,        \* Backups/: timestamp -> copied entries
    now,            \* wall clock, in seconds
    last_action,    \* cfg["last_action"]
    outcome,        \* what the last handler run did and reported
    prev,           \* handler and dialog of the run before it
    fs,             \* the forest find_mwc_candidates scans: root -> entries
    next_root,      \* the root the main thread enumerates next
    scan_pc,        \* where the main thread of find_mwc_candidates is
    futures,        \* the submitted fast_check calls, in submission order
    checked,        \* the shared set "checked"
    candidates      \* the list "candidates"

handlerVars == <<game_path, folderExists, tree, fmf, backups, now, last_action, outcome, prev>>
scanVars == <<fs, next_root, scan_pc, futures, checked, candidates>>
vars == <<handlerVars, scanVars>>

(***************************************************************************)
(* PathPredicate                                                           *)
(***************************************************************************)

looks_like_mismatched(t) ==
    IF Exists(t, exe_mwc) /\ Exists(t, data_msc) THEN TRUE
    ELSE IF Exists(t, exe_msc) /\ Exists(t, data_mwc) THEN TRUE
    ELSE IF Exists(t, exe_mwc) /\ Exists(t, data_mwc) THEN TRUE
    ELSE IF Exists(t, exe_msc) /\ Exists(t, data_msc) THEN TRUE
    ELSE FALSE

\* A predicate that is satisfied by an executable marker alone.
looks_like_any_executable(t) ==
    IF Exists(t, exe_mwc) THEN TRUE
    ELSE IF Exists(t, exe_msc) THEN TRUE
    ELSE FALSE

\* looks_like_mwc_folder(path), on the entries t of path (all absent when the
\* path does not exist: Path.exists() is then False for every child).
looks_like_mwc_folder(t) ==
    IF Exists(t, exe_mwc) /\ Exists(t, data_mwc) THEN TRUE
    ELSE IF Exists(t, exe_msc) /\ Exists(t, data_msc) THEN TRUE
    ELSE FALSE

(***************************************************************************)
(* BackupManager                                                           *)
(***************************************************************************)

Present(t) == {n \in Names : Exists(t, n)}

\* Failures injected into a recursive copy of t: none, or the copy of one
\* entry K of t raises.
CopyFaults(t) == {{}} \cup {{n} : n \in Present(t)}

\* Failures injected into the backup a handler takes: none, or the source
\* cannot be read (every copy raises).
SourceFaults(t) == {{}, Present(t)}

Extend(bk, ts, copy) ==
    [x \in (DOMAIN bk) \cup {ts} |-> IF x = ts THEN copy ELSE bk[x]]

create_backup_ignoring_errors(exists, t, ts, bk, copyFail) ==
    IF ~exists THEN [path |-> None, backups |-> bk]
    ELSE IF ts \in DOMAIN bk THEN [path |-> None, backups |-> bk]
    ELSE [path |-> ts,
          backups |-> Extend(bk, ts, [n \in Names |-> IF n \in copyFail THEN Absent ELSE t[n]])]

\* A backup that copies over a destination that is already there.
create_backup_overwriting(exists, t, ts, bk, copyFail) ==
    IF ~exists THEN [path |-> None, backups |-> bk]
    ELSE LET copy == [n \in Names |-> IF n \in copyFail THEN Absent ELSE t[n]]
             errors == {n \in copyFail : Exists(t, n)}
         IN [path |-> IF errors = {} THEN ts ELSE None,
             backups |-> Extend(bk, ts, copy)]

\* create_backup(game_folder): shutil.copytree copies entry by entry, collects
\* the entries whose copy raised and raises shutil.Error at the end if there
\* are any; an existing destination raises before anything is copied.  The
\* partial destination is left on disk.
create_backup(exists, t, ts, bk, copyFail) ==
    IF ~exists THEN [path |-> None, backups |-> bk]
    ELSE IF ts \in DOMAIN bk THEN [path |-> None, backups |-> bk]
    ELSE LET copy == [n \in Names |-> IF n \in copyFail THEN Absent ELSE t[n]]
             errors == {n \in copyFail : Exists(t, n)}
         IN [path |-> IF errors = {} THEN ts ELSE None,
             backups |-> Extend(bk, ts, copy)]

\* on_fix_clicked: "if not backup_folder: ... return".
backup_unchecked(b) == FALSE
backup_failed(b) == b.path = None

(***************************************************************************)
(* OverlayMerger                                                           *)
(***************************************************************************)

\* An entry that is a directory.
Dir == <<"dir">>

\* Relative paths of the trees the merge is exercised on: an overlay with a
\* directory "a", a directory "a/b" in it and a file at each level, and one
\* destination file the overlay does not have.
RootDir == "."
MergeDirs == <<"a", "a/b">>
MergeFiles == {"readme.txt", "a/readme.txt", "a/b/c.dll"}
OtherFile == "other.txt"
MergePaths == {MergeDirs[i] : i \in 1..Len(MergeDirs)} \cup MergeFiles \cup {OtherFile}

\* The directory an entry lies in (everything else lies in the root).
Parent(p) ==
    CASE p = "a/b" -> "a"
      [] p = "a/readme.txt" -> "a"
      [] p = "a/b/c.dll" -> "a/b"
      [] OTHER -> RootDir

\* os.walk(base), top-down: the root, then the directories of the overlay.
Walk(overlay) ==
    <<RootDir>> \o SelectSeq(MergeDirs, LAMBDA d : d \in overlay.dirs)

\* The files of directory d whose copy goes through: shutil.copy2 raises for
\* an injected failure and when the destination path is a directory.
CopiedIn(t, overlay, d, copyFail) ==
    {f \in overlay.files : Parent(f) = d /\ f \notin copyFail /\ t[f] # Dir}

\* The body of the os.walk loop from its i-th directory on, st being the
\* destination, the two counters and the exception raised so far.
\* dest_dir.mkdir(parents=True, exist_ok=True) is outside the try: it raises
\* FileExistsError when the mirrored path is a file, and that leaves the
\* function.
RECURSIVE WalkFrom(_, _, _, _, _)
WalkFrom(st, overlay, walk, i, copyFail) ==
    IF i > Len(walk) THEN st
    ELSE LET d == walk[i] IN
         IF d # RootDir /\ st.tree[d] # Absent /\ st.tree[d] # Dir
         THEN [st EXCEPT !.exc = <<"FileExistsError", d>>]
         ELSE LET made == IF d = RootDir THEN st.tree ELSE [st.tree EXCEPT ![d] = Dir]
                  copied == CopiedIn(made, overlay, d, copyFail)
              IN WalkFrom([tree |-> [p \in DOMAIN made |->
                                        IF p \in copied THEN FmfContent(p) ELSE made[p]],
                           files |-> st.files + Cardinality(copied),
                           dirs |-> st.dirs + (IF d = RootDir THEN 0 ELSE 1),
                           ran |-> st.ran \cup copied,
                           exc |-> st.exc],
                          overlay, walk, i + 1, copyFail)

\* The same function giving the merge up when the copy of a file raises.
copy_fmf_abort_on_error(t, overlay, copyFail) ==
    IF ~overlay.exists \/ (overlay.files \cap copyFail) # {}
    THEN [tree |-> t, files |-> 0, dirs |-> 0, ran |-> {}, exc |-> <<>>]
    ELSE WalkFrom([tree |-> t, files |-> 0, dirs |-> 0, ran |-> {}, exc |-> <<>>],
                  overlay, Walk(overlay), 1, copyFail)

\* The same loop copying only the files the destination does not have yet.
copy_fmf_keep_existing(t, overlay, copyFail) ==
    IF ~overlay.exists
    THEN [tree |-> t, files |-> 0, dirs |-> 0, ran |-> {}, exc |-> <<>>]
    ELSE WalkFrom([tree |-> t, files |-> 0, dirs |-> 0, ran |-> {}, exc |-> <<>>],
                  overlay, Walk(overlay), 1,
                  copyFail \cup {f \in overlay.files : t[f] # Absent})

\* The same function raising when the overlay folder is missing.
copy_fmf_missing_is_error(t, overlay, copyFail) ==
    IF ~overlay.exists
    THEN [tree |-> t, files |-> 0, dirs |-> 0, ran |-> {},
          exc |-> <<"FileNotFoundError", RootDir>>]
    ELSE WalkFrom([tree |-> t, files |-> 0, dirs |-> 0, ran |-> {}, exc |-> <<>>],
                  overlay, Walk(overlay), 1, copyFail)

\* copy_fmf_to_game(game_folder) on the entries t of the game folder: (0, 0)
\* when fmf does not exist; otherwise every directory of fmf is mirrored and
\* every file copied over the entry of the same relative path, a copy that
\* raises being logged and skipped.  "files" and "dirs" are the pair that is
\* returned when exc is empty.
copy_fmf_to_game(t, overlay, copyFail) ==
    IF ~overlay.exists
    THEN [tree |-> t, files |-> 0, dirs |-> 0, ran |-> {}, exc |-> <<>>]
    ELSE WalkFrom([tree |-> t, files |-> 0, dirs |-> 0, ran |-> {}, exc |-> <<>>],
                  overlay, Walk(overlay), 1, copyFail)

(***************************************************************************)
(* TransformEngine                                                         *)
(***************************************************************************)

\* Path.rename(src -> dst) on Windows (the tool scans drive letters and uses
\* win32com): raises when the OS refuses (fault), and always when dst exists.
Rename(t, src, dst, fault) ==
    IF fault THEN [ok |-> FALSE, exc |-> <<"PermissionError", src>>, tree |-> t]
    ELSE IF Exists(t, dst)
         THEN [ok |-> FALSE, exc |-> <<"FileExistsError", src>>, tree |-> t]
    ELSE [ok |-> TRUE, exc |-> <<>>,
          tree |-> [t EXCEPT ![dst] = t[src], ![src] = Absent]]

\* The try block of on_fix_clicked / on_revert_clicked: rename the
\* executable if it exists, then the data folder if it exists; the first
\* exception leaves the block.
RenamePair(t, exeSrc, exeDst, dataSrc, dataDst, faults) ==
    LET r1 == IF Exists(t, exeSrc)
              THEN Rename(t, exeSrc, exeDst, "exe" \in faults)
              ELSE [ok |-> TRUE, exc |-> <<>>, tree |-> t]
        n1 == IF Exists(t, exeSrc) /\ r1.ok THEN 1 ELSE 0
    IN IF ~r1.ok THEN [ok |-> FALSE, exc |-> r1.exc, tree |-> t, renames |-> 0]
       ELSE LET r2 == IF Exists(r1.tree, dataSrc)
                      THEN Rename(r1.tree, dataSrc, dataDst, "data" \in faults)
                      ELSE [ok |-> TRUE, exc |-> <<>>, tree |-> r1.tree]
                n2 == IF Exists(r1.tree, dataSrc) /\ r2.ok THEN 1 ELSE 0
            IN [ok |-> r2.ok, exc |-> r2.exc, tree |-> r2.tree, renames |-> n1 + n2]

\* The same block without the exists() guards: renaming an absent entry raises.
RenameNoSkip(t, src, dst, fault) ==
    IF ~Exists(t, src)
    THEN [ok |-> FALSE, exc |-> <<"FileNotFoundError", src>>, tree |-> t]
    ELSE Rename(t, src, dst, fault)

RenamePairNoSkip(t, exeSrc, exeDst, dataSrc, dataDst, faults) ==
    LET r1 == RenameNoSkip(t, exeSrc, exeDst, "exe" \in faults)
    IN IF ~r1.ok THEN [ok |-> FALSE, exc |-> r1.exc, tree |-> t, renames |-> 0]
       ELSE LET r2 == RenameNoSkip(r1.tree, dataSrc, dataDst, "data" \in faults)
            IN [ok |-> r2.ok, exc |-> r2.exc, tree |-> r2.tree,
                renames |-> IF r2.ok THEN 2 ELSE 1]

\* The same block renaming the executable only.
RenameExeOnly(t, exeSrc, exeDst, faults) ==
    LET r == IF Exists(t, exeSrc)
             THEN Rename(t, exeSrc, exeDst, "exe" \in faults)
             ELSE [ok |-> TRUE, exc |-> <<>>, tree |-> t]
    IN [ok |-> r.ok, exc |-> r.exc, tree |-> r.tree,
        renames |-> IF Exists(t, exeSrc) /\ r.ok THEN 1 ELSE 0]

fix_renames_exe_only(t, faults) == RenameExeOnly(t, exe_mwc, exe_msc, faults)

fix_renames_no_skip(t, faults) ==
    RenamePairNoSkip(t, exe_mwc, exe_msc, data_mwc, data_msc, faults)

revert_renames_exe_only(t, faults) == RenameExeOnly(t, exe_msc, exe_mwc, faults)

\* on_fix_clicked, lines 798-808.
fix_renames(t, faults) ==
    RenamePair(t, exe_mwc, exe_msc, data_mwc, data_msc, faults)

\* A revert that renames the data folder and leaves the executable alone.
revert_renames_data_only(t, faults) ==
    LET r == IF Exists(t, data_msc)
             THEN Rename(t, data_msc, data_mwc, "data" \in faults)
             ELSE [ok |-> TRUE, exc |-> <<>>, tree |-> t]
    IN [ok |-> r.ok, exc |-> r.exc, tree |-> r.tree,
        renames |-> IF Exists(t, data_msc) /\ r.ok THEN 1 ELSE 0]

\* on_revert_clicked, lines 857-867.
revert_renames(t, faults) ==
    RenamePair(t, exe_msc, exe_mwc, data_msc, data_mwc, faults)

RenameFaults == SUBSET {"exe", "data"}

\* on_fix_clicked, lines 805-808: "except Exception as e: ... return".
rename_failure_ignored(r) == FALSE
rename_failed(r) == ~r.ok

(***************************************************************************)
(* ArchiveInstaller                                                        *)
(***************************************************************************)

\* The entries of the loader archive, in the order extractall writes them.
LoaderEntries == <<"winhttp.dll", "doorstop_config.ini", "readme.txt">>

\* The archives a game folder with entries t can be given: the archive
\* holds any of the loader entries that t has a place for.
RECURSIVE SubSeqsOf(_)
SubSeqsOf(q) ==
    IF q = <<>> THEN {<<>>}
    ELSE LET rest == SubSeqsOf(Tail(q))
         IN rest \cup {<<Head(q)>> \o x : x \in rest}

Archives(t) == {a \in SubSeqsOf(LoaderEntries) : \A i \in 1..Len(a) : a[i] \in DOMAIN t}

\* ZipFile.extractall from its i-th entry on: each entry is written over
\* what is there; the entry failAt raises (a corrupt entry, an I/O error), and
\* so does an entry whose path is a directory of the destination.  What was
\* written before stays.
RECURSIVE ExtractFrom(_, _, _, _)
ExtractFrom(t, entries, i, failAt) ==
    IF i > Len(entries)
    THEN [ok |-> TRUE, exc |-> <<>>, tree |-> t, extracted |-> i - 1]
    ELSE IF i = failAt \/ t[entries[i]] = Dir
    THEN [ok |-> FALSE, exc |-> <<"zip error", entries[i]>>, tree |-> t, extracted |-> i - 1]
    ELSE ExtractFrom([t EXCEPT ![entries[i]] = ZipContent(entries[i])],
                     entries, i + 1, failAt)

\* An extraction that puts the destination back as it was when it fails.
extractall_with_rollback(t, entries, failAt) ==
    LET x == ExtractFrom(t, entries, 1, failAt)
    IN IF x.ok THEN x ELSE [x EXCEPT !.tree = t]

\* z.extractall(game_folder).
extractall(t, entries, failAt) == ExtractFrom(t, entries, 1, failAt)

\* What install_mscloader_from_zip returns.
ZipMissing == <<FALSE, "Local zip not found. Please download it first.">>
UnzipFailed == <<FALSE, "Unzip failed:">>
ZipInstalled == <<TRUE, "MSC Loader 1.3.4 installed from local zip.">>

\* install_mscloader_from_zip(game_folder).
install_mscloader_from_zip(zipExists, t, entries, failAt) ==
    IF ~zipExists
    THEN [result |-> ZipMissing, exc |-> <<>>, tree |-> t, extracted |-> 0]
    ELSE LET x == extractall(t, entries, failAt)
         IN [result |-> IF x.ok THEN ZipInstalled ELSE UnzipFailed,
             exc |-> x.exc, tree |-> x.tree, extracted |-> x.extracted]

(***************************************************************************)
(* The dialogs a handler ends with                                         *)
(***************************************************************************)
Silent == <<"none", "", "">>
NoFolder == <<"warning", "No Folder", "Select or auto-detect game folder first.">>
NotValid == <<"warning", "Not Valid", "This folder does not look like My Winter Car / My Summer Car.">>
BrowseWarning == <<"warning", "Warning", "Selected folder does not seem to contain My Winter Car / My Summer Car executable.">>
BackupFailed == <<"warning", "Backup Failed", "Backup could not be created. Aborting.">>
RenameFailed == <<"critical", "Error", "Rename failed:">>
FixDone == <<"information", "Done", "Game successfully converted for MSC Loader.">>
RevertFailed == <<"critical", "Error", "Revert failed:">>
Reverted == <<"information", "Reverted", "Names reverted successfully.">>
ZipNotFound == <<"critical", "ZIP not found", "File MSC_Loader.zip not found.">>
LoaderInstalled == <<"information", "Success", "Loader installed!">>
InstallError == <<"critical", "Error", "Error says:">>
\* No dialog: an exception left the handler.
Unhandled == <<"none", "", "unhandled exception">>

\* What one handler run did: the dialog it ended with, the exception it
\* caught, the entries before it ran, how many renames it performed, the
\* backup it made and whether it reached the overlay merge.
Outcome(op, dialog, exc, before, renames, backup, merged) ==
    [op |-> op, dialog |-> dialog, exc |-> exc, before |-> before,
     renames |-> renames, backup |-> backup, merged |-> merged]

NoOutcome == Outcome("none", Silent, <<>>, EmptyTree, 0, None, FALSE)

\* A dialog that reports a failure to the user.
IsError(dialog) == dialog[1] \in {"warning", "critical"}

Summary(o) == [op |-> o.op, dialog |-> o.dialog]

(***************************************************************************)
(* InstallationScanner                                                     *)
(***************************************************************************)

\* Directory names are sequences of characters, so that lower() and the
\* substring test of fast_check are computed, not assumed.

\* BAD_DIRS of find_mwc_candidates.
BAD_DIRS == {
    <<"w", "i", "n", "d", "o", "w", "s">>,
    <<"p", "r", "o", "g", "r", "a", "m", "d", "a", "t", "a">>,
    <<"s", "y", "s", "t", "e", "m", " ", "v", "o", "l", "u", "m", "e", " ", "i", "n", "f", "o", "r", "m", "a", "t", "i", "o", "n">>,
    <<"$", "r", "e", "c", "y", "c", "l", "e", ".", "b", "i", "n">>,
    <<"r", "e", "c", "y", "c", "l", "e", "r">>,
    <<"r", "e", "c", "o", "v", "e", "r", "y">>,
    <<"t", "m", "p">>,
    <<"t", "e", "m", "p">>}

\* TARGET_NAMES of find_mwc_candidates.
TARGET_NAMES == {
    <<"m", "y", " ", "w", "i", "n", "t", "e", "r", " ", "c", "a", "r">>,
    <<"w", "i", "n", "t", "e", "r">>,
    <<"m", "y", "s", "u", "m", "m", "e", "r", "c", "a", "r">>,
    <<"m", "y", "w", "i", "n", "t", "e", "r", "c", "a", "r">>}

\* str.lower(), character by character.
LowerChar(c) ==
    CASE c = "A" -> "a"
      [] c = "B" -> "b"
      [] c = "C" -> "c"
      [] c = "D" -> "d"
      [] c = "E" -> "e"
      [] c = "F" -> "f"
      [] c = "G" -> "g"
      [] c = "H" -> "h"
      [] c = "I" -> "i"
      [] c = "J" -> "j"
      [] c = "K" -> "k"
      [] c = "L" -> "l"
      [] c = "M" -> "m"
      [] c = "N" -> "n"
      [] c = "O" -> "o"
      [] c = "P" -> "p"
      [] c = "Q" -> "q"
      [] c = "R" -> "r"
      [] c = "S" -> "s"
      [] c = "T" -> "t"
      [] c = "U" -> "u"
      [] c = "V" -> "v"
      [] c = "W" -> "w"
      [] c = "X" -> "x"
      [] c = "Y" -> "y"
      [] c = "Z" -> "z"
      [] OTHER -> c

Lower(s) == [i \in 1..Len(s) |-> LowerChar(s[i])]

\* "x in name" of two strings: x occurs in name as a substring.
IsSubstring(x, s) ==
    \E k \in 0..(Len(s) - Len(x)) : \A i \in 1..Len(x) : s[k + i] = x[i]

PlainTopNames == <<
    <<"G", "a", "m", "e", "s">>,
    <<"T", "o", "o", "l", "s">>,
    <<"A", "p", "p", "s">>>>

BadTopNames == <<
    <<"W", "i", "n", "d", "o", "w", "s">>,
    <<"P", "r", "o", "g", "r", "a", "m", "D", "a", "t", "a">>,
    <<"R", "e", "c", "o", "v", "e", "r", "y">>>>

TargetTopNames == <<
    <<"M", "y", " ", "W", "i", "n", "t", "e", "r", " ", "C", "a", "r">>,
    <<"M", "y", "S", "u", "m", "m", "e", "r", "C", "a", "r">>,
    <<"w", "i", "n", "t", "e", "r">>>>

PlainSubNames == <<
    <<"m", "w", "c">>,
    <<"g", "a", "m", "e">>,
    <<"M", "S", "C">>,
    <<"x">>>>

BadSubNames == <<
    <<"T", "e", "m", "p">>,
    <<"R", "E", "C", "Y", "C", "L", "E", "R">>,
    <<"t", "m", "p">>,
    <<"t", "e", "m", "p">>>>

\* What fast_check returns for "nothing found" (None); a path otherwise.
NoResult == <<>>

\* max_workers of the ThreadPoolExecutor.
max_workers == 12

(***************************************************************************)
(* Bounds of the scanned forest                                            *)
(***************************************************************************)

\* Scan roots (drives and library folders that exist).
NumRoots == 2
\* Entries directly under a root.
MaxTop == 1
\* Entries directly under a top-level directory.
MaxSub == 2

\* Entries of the directories the scanner looks into.
ValidTree ==
    [n \in Names |-> IF n \in {exe_mwc, data_mwc} THEN GameContent(n) ELSE Absent]
ExeOnlyTree ==
    [n \in Names |-> IF n = exe_msc THEN GameContent(n) ELSE Absent]

\* The j-th entry of a top-level directory: an installation under a plain
\* name, an installation under a deny-listed name, a directory that holds
\* an executable marker but fails the predicate, or a directory without
\* markers that holds an installation one level further down ("nested" is
\* the entries of that deeper directory).  "denied" tells whether looking
\* into the entry raises (PermissionError or another OSError out of
\* Path.exists()).
SubShapes(j) ==
    {[name |-> PlainSubNames[j], tree |-> ValidTree, nested |-> EmptyTree, denied |-> FALSE],
     [name |-> BadSubNames[j], tree |-> ValidTree, nested |-> EmptyTree, denied |-> FALSE],
     [name |-> PlainSubNames[j], tree |-> ExeOnlyTree, nested |-> EmptyTree, denied |-> FALSE],
     [name |-> PlainSubNames[j], tree |-> EmptyTree, nested |-> ValidTree, denied |-> FALSE]}

SubSeqs ==
    UNION {{s \in [1..n -> UNION {SubShapes(j) : j \in 1..MaxSub}] :
               \A j \in 1..n : s[j] \in SubShapes(j)} : n \in 0..MaxSub}

\* The i-th entry of a root: a file, a directory that cannot be listed, an
\* installation under a target name, or a listable directory under a plain,
\* deny-listed or target name with its entries.
TopShapes(i) ==
    {[kind |-> "file", name |-> PlainTopNames[i], tree |-> EmptyTree,
      listable |-> FALSE, subs |-> <<>>],
     [kind |-> "dir", name |-> PlainTopNames[i], tree |-> EmptyTree,
      listable |-> FALSE, subs |-> <<>>],
     [kind |-> "dir", name |-> TargetTopNames[i], tree |-> ValidTree,
      listable |-> TRUE, subs |-> <<>>]}
    \cup
    {[kind |-> "dir", name |-> nm, tree |-> EmptyTree, listable |-> TRUE, subs |-> ss] :
        nm \in {PlainTopNames[i], BadTopNames[i], TargetTopNames[i]}, ss \in SubSeqs}

Roots == 1..NumRoots

Disks ==
    {d \in [Roots -> [listable : BOOLEAN,
                      entries : [1..MaxTop -> UNION {TopShapes(i) : i \in 1..MaxTop}]]] :
        \A r \in Roots : \A i \in 1..MaxTop : d[r].entries[i] \in TopShapes(i)}

\* The forests of Disks whose directories hold at most one entry each, and
\* nothing below it.
SmallTops(i) ==
    {t \in TopShapes(i) :
        /\ Len(t.subs) <= 1
        /\ \A j \in 1..Len(t.subs) : t.subs[j].nested = EmptyTree}

SmallDisks ==
    {d \in [Roots -> [listable : BOOLEAN,
                      entries : [1..MaxTop -> UNION {SmallTops(i) : i \in 1..MaxTop}]]] :
        \A r \in Roots : \A i \in 1..MaxTop : d[r].entries[i] \in SmallTops(i)}

\* Forests in which two entries of one root can have names that differ in
\* case only (a case-sensitive directory; no two entries have the same
\* name): as Path objects on Windows the two are equal, so "path in checked"
\* and "res not in candidates" take them for the same path.
AliasTopNames == {
    <<"G", "a", "m", "e", "s">>,
    <<"G", "A", "M", "E", "S">>,
    <<"T", "o", "o", "l", "s">>}

AliasSubSeqs == {<<>>} \cup {<<s>> : s \in SubShapes(1)}

AliasTops ==
    {[kind |-> "dir", name |-> nm, tree |-> EmptyTree, listable |-> TRUE, subs |-> ss] :
        nm \in AliasTopNames, ss \in AliasSubSeqs}

OtherRoots ==
    {[listable |-> FALSE, entries |-> <<>>],
     [listable |-> TRUE,
      entries |-> <<[kind |-> "dir", name |-> TargetTopNames[1], tree |-> ValidTree,
                     listable |-> TRUE, subs |-> <<>>]>>]}

AliasDisks ==
    {d \in [Roots -> [listable : BOOLEAN,
                      entries : [1..2 -> AliasTops] \cup {e.entries : e \in OtherRoots}]] :
        /\ d[1].listable /\ d[1].entries \in [1..2 -> AliasTops]
        /\ d[1].entries[1].name # d[1].entries[2].name
        /\ \A r \in Roots \ {1} : d[r] \in OtherRoots}

\* Forests with entries the scanner is not allowed to look into, under a
\* plain or a deny-listed name (what such an entry holds is never seen).
FaultSubShapes(j) ==
    SubShapes(j) \cup
    {[name |-> nm, tree |-> EmptyTree, nested |-> EmptyTree, denied |-> TRUE] :
        nm \in {PlainSubNames[j], BadSubNames[j]}}

FaultSubSeqs ==
    UNION {{s \in [1..n -> UNION {FaultSubShapes(j) : j \in 1..MaxSub}] :
               \A j \in 1..n : s[j] \in FaultSubShapes(j)} : n \in 0..MaxSub}

FaultTops ==
    {[kind |-> "dir", name |-> nm, tree |-> EmptyTree, listable |-> TRUE, subs |-> ss] :
        nm \in {PlainTopNames[1], TargetTopNames[1]}, ss \in FaultSubSeqs}

FaultDisks ==
    {d \in [Roots -> [listable : BOOLEAN,
                      entries : {<<t>> : t \in FaultTops} \cup {e.entries : e \in OtherRoots}]] :
        /\ d[1].listable /\ d[1].entries \in {<<t>> : t \in FaultTops}
        /\ \A r \in Roots \ {1} : d[r] \in OtherRoots}

(***************************************************************************)
(* fast_check                                                              *)
(***************************************************************************)
MatchesTarget(name) == \E x \in TARGET_NAMES : IsSubstring(x, Lower(name))

DenyListed(name) == Lower(name) \in BAD_DIRS

HasExeMarker(t) == Exists(t, exe_mwc) \/ Exists(t, exe_msc)

\* What a future holds when its call ended with an exception, and what the
\* loop over the entries gives when an exception left it.
Raised == <<"raised">>

\* Lines 155-164: an entry that is not deny-listed is looked into with
\* Path.exists(), which raises when that is refused.
TestRaises(s) == ~DenyListed(s.name) /\ s.denied

\* The test of one entry of the scanned directory (lines 155-167).
SubMatches(s) ==
    /\ ~DenyListed(s.name)
    /\ HasExeMarker(s.tree)
    /\ looks_like_mwc_folder(s.tree)

\* The same loop, descending one more level into an entry that fails the test.
RECURSIVE FirstMatchDeep(_, _, _)
FirstMatchDeep(path, subs, j) ==
    IF j > Len(subs) THEN NoResult
    ELSE IF TestRaises(subs[j]) THEN Raised
    ELSE IF SubMatches(subs[j]) THEN Append(path, j)
    ELSE IF HasExeMarker(subs[j].nested) /\ looks_like_mwc_folder(subs[j].nested)
    THEN Append(Append(path, j), 1)
    ELSE FirstMatchDeep(path, subs, j + 1)

\* The for loop over os.scandir(path): the first entry that passes the test
\* is returned; an exception raised by the test of an entry leaves the loop.
RECURSIVE FirstMatch(_, _, _)
FirstMatch(path, subs, j) ==
    IF j > Len(subs) THEN NoResult
    ELSE IF TestRaises(subs[j]) THEN Raised
    ELSE IF SubMatches(subs[j]) THEN Append(path, j)
    ELSE FirstMatch(path, subs, j + 1)

\* fast_check without its try / except: os.scandir on a directory that cannot
\* be listed raises out of the call.
fast_check_unguarded(path, dir) ==
    IF MatchesTarget(dir.name) /\ looks_like_mwc_folder(dir.tree) THEN path
    ELSE IF ~dir.listable THEN Raised
    ELSE FirstMatch(path, dir.subs, 1)

\* fast_check(path) after the visited-set test: the directory itself when its
\* name matches a target fragment and it passes the predicate, else the
\* first matching entry; an exception (a directory that cannot be listed,
\* an entry that cannot be looked into) is caught by the one try / except
\* around the whole body and gives None.
fast_check_rest(path, dir) ==
    IF MatchesTarget(dir.name) /\ looks_like_mwc_folder(dir.tree) THEN path
    ELSE IF ~dir.listable THEN NoResult
    ELSE LET m == FirstMatch(path, dir.subs, 1)
         IN IF m = Raised THEN NoResult ELSE m

\* No scan is running.
ScanIdle ==
    /\ fs = <<>>
    /\ next_root = 1
    /\ scan_pc = "idle"
    /\ futures = <<>>
    /\ checked = {}
    /\ candidates = <<>>

(***************************************************************************)
(* Initial states                                                          *)
(***************************************************************************)
Init ==
    /\ folderExists \in BOOLEAN
    /\ \E present \in SUBSET (Markers \cup {"readme.txt"}) :
          tree = [n \in Names |-> IF folderExists /\ n \in present
                                  THEN GameContent(n) ELSE Absent]
    /\ game_path \in (IF folderExists THEN {NoPath, Folder} ELSE {NoPath})
    /\ fmf \in [exists : BOOLEAN, files : SUBSET FmfNames, dirs : {{}}]
    /\ (~fmf.exists => fmf.files = {})
    /\ backups = <<>>
    /\ now = 1
    /\ last_action = "None"
    /\ outcome = NoOutcome
    /\ prev = Summary(NoOutcome)
    /\ ScanIdle

(***************************************************************************)
(* Handlers                                                                *)
(***************************************************************************)

\* Time passes between two handler runs.
Tick ==
    /\ now < MaxClock
    /\ now' = now + 1
    /\ UNCHANGED <<game_path, folderExists, tree, fmf, backups, last_action, outcome, prev>>

Finish(o) ==
    /\ outcome' = o
    /\ prev' = Summary(outcome)

\* on_browse_clicked: a folder that fails the predicate is warned about and
\* selected all the same.
on_browse_clicked ==
    \E chosen \in BOOLEAN :
        IF ~chosen
        THEN /\ Finish(Outcome("browse", Silent, <<>>, tree, 0, None, FALSE))
             /\ UNCHANGED <<game_path, folderExists, tree, fmf, backups, now, last_action>>
        ELSE /\ game_path' = Folder
             /\ Finish(Outcome("browse",
                               IF ~looks_like_mwc_folder(tree) THEN BrowseWarning ELSE Silent,
                               <<>>, tree, 0, None, FALSE))
             /\ UNCHANGED <<folderExists, tree, fmf, backups, now, last_action>>

on_fix_clicked ==
    IF game_path = NoPath
    THEN /\ Finish(Outcome("fix", NoFolder, <<>>, tree, 0, None, FALSE))
         /\ UNCHANGED <<game_path, folderExists, tree, fmf, backups, now, last_action>>
    ELSE IF ~looks_like_mwc_folder(tree)
    THEN /\ Finish(Outcome("fix", NotValid, <<>>, tree, 0, None, FALSE))
         /\ UNCHANGED <<game_path, folderExists, tree, fmf, backups, now, last_action>>
    ELSE \E answerYes \in BOOLEAN :
        IF ~answerYes
        THEN /\ Finish(Outcome("fix", Silent, <<>>, tree, 0, None, FALSE))
             /\ UNCHANGED <<game_path, folderExists, tree, fmf, backups, now, last_action>>
        ELSE \E copyFail \in SourceFaults(tree) :
            LET b == create_backup(folderExists, tree, now, backups, copyFail) IN
            IF backup_failed(b)
            THEN /\ backups' = b.backups
                 /\ Finish(Outcome("fix", BackupFailed, <<>>, tree, 0, None, FALSE))
                 /\ UNCHANGED <<game_path, folderExists, tree, fmf, now, last_action>>
            ELSE \E faults \in RenameFaults :
                LET r == fix_renames(tree, faults) IN
                IF rename_failed(r)
                THEN /\ backups' = b.backups
                     /\ tree' = r.tree
                     /\ Finish(Outcome("fix", RenameFailed, r.exc, tree,
                                       r.renames, b.path, FALSE))
                     /\ UNCHANGED <<game_path, folderExists, fmf, now, last_action>>
                ELSE \E mergeFail \in SUBSET fmf.files :
                    LET m == copy_fmf_to_game(r.tree, fmf, mergeFail) IN
                    IF m.exc # <<>>
                    THEN /\ backups' = b.backups
                         /\ tree' = m.tree
                         /\ Finish(Outcome("fix", Unhandled, m.exc, tree,
                                           r.renames, b.path, TRUE))
                         /\ UNCHANGED <<game_path, folderExists, fmf, now, last_action>>
                    ELSE /\ backups' = b.backups
                         /\ tree' = m.tree
                         /\ last_action' = "FIXED"
                         /\ Finish(Outcome("fix", FixDone, r.exc, tree,
                                           r.renames, b.path, TRUE))
                         /\ UNCHANGED <<game_path, folderExists, fmf, now>>

\* A revert that takes a backup of the folder before it renames, as the fix
\* does.
on_revert_with_backup ==
    IF game_path = NoPath
    THEN /\ Finish(Outcome("revert", NoFolder, <<>>, tree, 0, None, FALSE))
         /\ UNCHANGED <<game_path, folderExists, tree, fmf, backups, now, last_action>>
    ELSE \E answerYes \in BOOLEAN :
        IF ~answerYes
        THEN /\ Finish(Outcome("revert", Silent, <<>>, tree, 0, None, FALSE))
             /\ UNCHANGED <<game_path, folderExists, tree, fmf, backups, now, last_action>>
        ELSE \E copyFail \in SourceFaults(tree) :
            LET b == create_backup(folderExists, tree, now, backups, copyFail) IN
            IF backup_failed(b)
            THEN /\ backups' = b.backups
                 /\ Finish(Outcome("revert", BackupFailed, <<>>, tree, 0, None, FALSE))
                 /\ UNCHANGED <<game_path, folderExists, tree, fmf, now, last_action>>
            ELSE \E faults \in RenameFaults :
                LET r == revert_renames(tree, faults) IN
                /\ backups' = b.backups
                /\ tree' = r.tree
                /\ last_action' = IF r.ok THEN "REVERTED" ELSE last_action
                /\ Finish(Outcome("revert", IF r.ok THEN Reverted ELSE RevertFailed,
                                  r.exc, tree, r.renames, b.path, FALSE))
                /\ UNCHANGED <<game_path, folderExists, fmf, now>>

on_revert_clicked ==
    IF game_path = NoPath
    THEN /\ Finish(Outcome("revert", NoFolder, <<>>, tree, 0, None, FALSE))
         /\ UNCHANGED <<game_path, folderExists, tree, fmf, backups, now, last_action>>
    ELSE \E answerYes \in BOOLEAN :
        IF ~answerYes
        THEN /\ Finish(Outcome("revert", Silent, <<>>, tree, 0, None, FALSE))
             /\ UNCHANGED <<game_path, folderExists, tree, fmf, backups, now, last_action>>
        ELSE \E faults \in RenameFaults :
            LET r == revert_renames(tree, faults) IN
            IF ~r.ok
            THEN /\ tree' = r.tree
                 /\ Finish(Outcome("revert", RevertFailed, r.exc, tree,
                                   r.renames, None, FALSE))
                 /\ UNCHANGED <<game_path, folderExists, fmf, backups, now, last_action>>
            ELSE /\ tree' = r.tree
                 /\ last_action' = "REVERTED"
                 /\ Finish(Outcome("revert", Reverted, <<>>, tree,
                                   r.renames, None, FALSE))
                 /\ UNCHANGED <<game_path, folderExists, fmf, backups, now>>

\* The record of one run of the loader installation: what Outcome holds,
\* and the archive, whether it was there, and how many entries were written.
InstallOutcome(op, dialog, x, before, zipExists, entries) ==
    [op |-> op, dialog |-> dialog, exc |-> x.exc, before |-> before,
     renames |-> 0, backup |-> None, merged |-> FALSE,
     zip |-> zipExists, archive |-> entries, extracted |-> x.extracted]

NothingExtracted == [exc |-> <<>>, extracted |-> 0]

\* on_install_msc_clicked: extractall creates the game folder when it is
\* not there and an entry is written.
on_install_msc_clicked ==
    IF game_path = NoPath
    THEN /\ Finish(InstallOutcome("install", NoFolder, NothingExtracted, tree, FALSE, <<>>))
         /\ UNCHANGED <<game_path, folderExists, tree, fmf, backups, now, last_action>>
    ELSE \E zipExists \in BOOLEAN :
        IF ~zipExists
        THEN /\ Finish(InstallOutcome("install", ZipNotFound, NothingExtracted, tree,
                                      FALSE, <<>>))
             /\ UNCHANGED <<game_path, folderExists, tree, fmf, backups, now, last_action>>
        ELSE \E answerYes \in BOOLEAN :
            IF ~answerYes
            THEN /\ Finish(InstallOutcome("install", Silent, NothingExtracted, tree,
                                          TRUE, <<>>))
                 /\ UNCHANGED <<game_path, folderExists, tree, fmf, backups, now,
                                last_action>>
            ELSE \E entries \in Archives(tree) : \E failAt \in 1..(Len(entries) + 1) :
                LET x == extractall(tree, entries, failAt) IN
                /\ tree' = x.tree
                /\ folderExists' = (folderExists \/ x.extracted > 0)
                /\ Finish(InstallOutcome("install",
                                         IF x.ok THEN LoaderInstalled ELSE InstallError,
                                         x, tree, TRUE, entries))
                /\ UNCHANGED <<game_path, fmf, backups, now, last_action>>

Next ==
    \/ Tick /\ UNCHANGED scanVars
    \/ on_browse_clicked /\ UNCHANGED scanVars
    \/ on_fix_clicked /\ UNCHANGED scanVars
    \/ on_revert_clicked /\ UNCHANGED scanVars

Spec == Init /\ [][Next]_vars

(***************************************************************************)
(* All handlers that write to the disk (specification SpecTool)            *)
(***************************************************************************)

\* The folders the whole tool is run on: a primary-named or alternate-named
\* installation, with or without a readme.txt of its own, or an empty folder.
ToolTrees ==
    {[n \in Names |-> IF n \in present THEN GameContent(n) ELSE Absent] :
        present \in {{}, {exe_mwc, data_mwc}, {exe_msc, data_msc},
                     {exe_mwc, data_mwc, "readme.txt"}}}

InitTool ==
    /\ folderExists = TRUE
    /\ tree \in ToolTrees
    /\ game_path \in {NoPath, Folder}
    /\ fmf \in {[exists |-> FALSE, files |-> {}, dirs |-> {}],
                [exists |-> TRUE, files |-> FmfNames, dirs |-> {}]}
    /\ backups = <<>>
    /\ now = 1
    /\ last_action = "None"
    /\ outcome = NoOutcome
    /\ prev = Summary(NoOutcome)
    /\ ScanIdle

NextTool ==
    \/ Tick /\ UNCHANGED scanVars
    \/ on_browse_clicked /\ UNCHANGED scanVars
    \/ on_fix_clicked /\ UNCHANGED scanVars
    \/ on_revert_clicked /\ UNCHANGED scanVars
    \/ on_install_msc_clicked /\ UNCHANGED scanVars

SpecTool == InitTool /\ [][NextTool]_vars

MergedFix(o) == o.op = "fix" /\ o.merged

\* C15: a fix run reaches the overlay merge only with a backup made in that
\* run and after a rename block that raised nothing; and in a step of any
\* other kind (a fix run that stops at the backup or at a rename, a revert,
\* a loader installation, a browse) no entry of the folder comes to hold a
\* file of the overlay.
C15_MergeOnlyAfterBackupAndRenames ==
    [][/\ MergedFix(outcome') =>
             /\ outcome'.backup # None
             /\ outcome'.backup \in DOMAIN backups'
             /\ outcome'.exc = <<>>
       /\ ~MergedFix(outcome') =>
             \A n \in Names : tree'[n] = FmfContent(n) => tree[n] = FmfContent(n)]_vars

\* C15 witness: the overlay holds a file, the rename of the data folder
\* failed after the backup was made, and the folder holds no overlay file.
C15_Witness ==
    /\ outcome.op = "fix"
    /\ outcome.dialog = RenameFailed
    /\ outcome.backup # None
    /\ outcome.renames = 1
    /\ fmf.exists /\ fmf.files # {}
    /\ \A n \in Names : tree[n] # FmfContent(n)

\* C20: a backup folder that is there stays there with the entries it has,
\* whatever runs next: another backup, a fix, a revert, an overlay merge or
\* a loader installation.
C20_BackupsNeverChange ==
    [][\A ts \in DOMAIN backups :
           ts \in DOMAIN backups' /\ backups'[ts] = backups[ts]]_vars

\* C20 witness: a backup of the primary-named folder is still what it was
\* after a later successful fix run that made a backup of its own, the
\* folder itself being alternate-named and holding loader and overlay files
\* by then.
C20_Witness ==
    /\ outcome.op = "fix" /\ outcome.dialog = FixDone
    /\ outcome.backup = 2
    /\ 1 \in DOMAIN backups
    /\ backups[1][exe_mwc] = GameContent(exe_mwc)
    /\ backups[1][data_mwc] = GameContent(data_mwc)
    /\ backups[1]["readme.txt"] = Absent
    /\ backups[2][exe_msc] = GameContent(exe_mwc)
    /\ backups[2]["readme.txt"] = ZipContent("readme.txt")
    /\ tree["readme.txt"] = FmfContent("readme.txt")

(***************************************************************************)
(* The two loader installations (specification SpecInstall)                *)
(***************************************************************************)
InstallPaths == {LoaderEntries[i] : i \in 1..Len(LoaderEntries)} \cup {OtherFile}

InitInstall ==
    /\ tree \in [InstallPaths -> {Absent, Dir} \cup {GameContent(p) : p \in InstallPaths}]
    /\ \A p \in InstallPaths : tree[p] \in {Absent, Dir, GameContent(p)}
    /\ tree[OtherFile] # Dir
    /\ folderExists = TRUE
    /\ game_path \in {NoPath, Folder}
    /\ fmf = [exists |-> FALSE, files |-> {}, dirs |-> {}]
    /\ backups = <<>>
    /\ now = 1
    /\ last_action = "None"
    /\ outcome = NoOutcome
    /\ prev = Summary(NoOutcome)
    /\ ScanIdle

\* One call install_mscloader_from_zip(game_folder).
call_install_mscloader_from_zip ==
    \E zipExists \in BOOLEAN : \E entries \in Archives(tree) :
    \E failAt \in 1..(Len(entries) + 1) :
        LET x == install_mscloader_from_zip(zipExists, tree, entries, failAt) IN
        /\ tree' = x.tree
        /\ Finish([result |-> x.result] @@
                  InstallOutcome("install_mscloader_from_zip", Silent, x, tree,
                                 zipExists, entries))
        /\ UNCHANGED <<game_path, folderExists, fmf, backups, now, last_action>>

NextInstall ==
    \/ call_install_mscloader_from_zip /\ UNCHANGED scanVars
    \/ on_install_msc_clicked /\ UNCHANGED scanVars

SpecInstall == InitInstall /\ [][NextInstall]_vars

\* A loader installation that got as far as looking for the archive.
InstallRan(o) ==
    \/ o.op = "install_mscloader_from_zip"
    \/ o.op = "install" /\ o.dialog \notin {NoFolder, Silent}

\* The caller is told that the installation failed, and why.
FailureReported(o, cause) ==
    IF o.op = "install"
    THEN o.dialog = (IF cause = "missing" THEN ZipNotFound ELSE InstallError)
    ELSE o.result = (IF cause = "missing" THEN ZipMissing ELSE UnzipFailed)

\* C19: an installation that fails after k entries were written reports the
\* failure (the handler with the critical dialog "Error", the function with
\* (False, "Unzip failed: ...")), the k entries hold what the archive gave
\* them and every other entry is as it was; an installation whose archive
\* is missing reports that and writes nothing.
C19_FailedInstallKeepsExtracted ==
    InstallRan(outcome) =>
        /\ ~outcome.zip =>
              /\ FailureReported(outcome, "missing")
              /\ tree = outcome.before
        /\ (outcome.zip /\ outcome.exc # <<>>) =>
              /\ FailureReported(outcome, "extract")
              /\ outcome.extracted < Len(outcome.archive)
              /\ \A i \in 1..outcome.extracted :
                    tree[outcome.archive[i]] = ZipContent(outcome.archive[i])
              /\ \A p \in InstallPaths \ {outcome.archive[i] : i \in 1..outcome.extracted} :
                    tree[p] = outcome.before[p]

\* C19 witness: the handler's extraction failed at the third entry of the
\* archive: the error dialog was shown, the first two entries are the
\* archive's and the third is the file that was there.
C19_Witness ==
    /\ outcome.op = "install"
    /\ outcome.dialog = InstallError
    /\ outcome.archive = LoaderEntries
    /\ outcome.extracted = 2
    /\ outcome.before["winhttp.dll"] = Absent
    /\ tree["winhttp.dll"] = ZipContent("winhttp.dll")
    /\ tree["doorstop_config.ini"] = ZipContent("doorstop_config.ini")
    /\ tree["readme.txt"] = GameContent("readme.txt")

TypeOK ==
    /\ game_path \in {NoPath, Folder}
    /\ tree \in [Names -> Contents]
    /\ now \in 1..MaxClock
    /\ DOMAIN backups \subseteq 1..MaxClock

(***************************************************************************)
(* create_backup on its own (specification SpecBackup)                     *)
(***************************************************************************)
InitBackup ==
    /\ folderExists \in BOOLEAN
    /\ \E present \in SUBSET Names :
          tree = [n \in Names |-> IF folderExists /\ n \in present
                                  THEN GameContent(n) ELSE Absent]
    /\ game_path = NoPath
    /\ fmf = [exists |-> FALSE, files |-> {}, dirs |-> {}]
    /\ backups = <<>>
    /\ now = 1
    /\ last_action = "None"
    /\ outcome = NoOutcome
    /\ prev = Summary(NoOutcome)
    /\ ScanIdle

\* One call create_backup(game_folder), the copy of at most one entry failing.
call_create_backup ==
    \E copyFail \in CopyFaults(tree) :
        LET b == create_backup(folderExists, tree, now, backups, copyFail)
            exc == IF copyFail = {} THEN <<>>
                   ELSE <<"shutil.Error", CHOOSE n \in copyFail : TRUE>>
        IN /\ backups' = b.backups
           /\ Finish(Outcome("create_backup", Silent, exc, tree, 0, b.path, FALSE))
           /\ UNCHANGED <<game_path, folderExists, tree, fmf, now, last_action>>

NextBackup ==
    \/ Tick /\ UNCHANGED scanVars
    \/ call_create_backup /\ UNCHANGED scanVars

SpecBackup == InitBackup /\ [][NextBackup]_vars

\* C7: create_backup returns a path only when the source exists, no copy
\* failed and the destination holds every entry of the source with its
\* content; when the copy of an entry fails, or the source does not exist,
\* it returns None.
C7_BackupPathOnlyOnFullCopy ==
    outcome.op = "create_backup" =>
        /\ outcome.backup # None =>
              /\ folderExists
              /\ outcome.exc = <<>>
              /\ outcome.backup \in DOMAIN backups
              /\ backups[outcome.backup] = outcome.before
        /\ (outcome.exc # <<>> \/ ~folderExists) => outcome.backup = None

\* C7 witness: the copy of the data folder failed: no path is returned, and
\* the destination that was being written is left behind, incomplete.
C7_Witness ==
    /\ outcome.op = "create_backup"
    /\ outcome.exc = <<"shutil.Error", data_mwc>>
    /\ outcome.backup = None
    /\ now \in DOMAIN backups
    /\ backups[now] # outcome.before
    /\ backups[now][exe_mwc] = GameContent(exe_mwc)

(***************************************************************************)
(* copy_fmf_to_game on its own (specification SpecMerge)                   *)
(***************************************************************************)

\* The overlay folders: missing, or a tree in which every entry lies in a
\* directory of the tree.
Overlays ==
    {[exists |-> FALSE, files |-> {}, dirs |-> {}]} \cup
    {o \in [exists : {TRUE}, files : SUBSET MergeFiles,
            dirs : SUBSET {MergeDirs[i] : i \in 1..Len(MergeDirs)}] :
        /\ \A d \in o.dirs : Parent(d) \in o.dirs \cup {RootDir}
        /\ \A f \in o.files : Parent(f) \in o.dirs \cup {RootDir}}

\* The game folders: every present entry lies in the root or in a present
\* directory; a path of the overlay can be taken by a file or by a directory.
Destinations ==
    {t \in [MergePaths -> {Absent, Dir} \cup {GameContent(p) : p \in MergePaths}] :
        /\ \A p \in MergePaths : t[p] \in {Absent, Dir, GameContent(p)}
        /\ t[OtherFile] # Dir
        /\ t["a/b/c.dll"] # Dir
        /\ \A p \in MergePaths :
              (t[p] # Absent /\ Parent(p) # RootDir) => t[Parent(p)] = Dir}

InitMerge ==
    /\ fmf \in Overlays
    /\ tree \in Destinations
    /\ folderExists = TRUE
    /\ game_path = Folder
    /\ backups = <<>>
    /\ now = 1
    /\ last_action = "None"
    /\ outcome = NoOutcome
    /\ prev = Summary(NoOutcome)
    /\ ScanIdle

\* One call copy_fmf_to_game(game_folder), the copy of any files failing.
call_copy_fmf_to_game ==
    \E copyFail \in SUBSET fmf.files :
        LET m == copy_fmf_to_game(tree, fmf, copyFail) IN
        /\ tree' = m.tree
        /\ outcome' = [op |-> "copy_fmf_to_game", dialog |-> Silent, exc |-> m.exc,
                       before |-> tree, renames |-> 0, backup |-> None, merged |-> TRUE,
                       overlay |-> fmf, failed |-> copyFail,
                       files |-> m.files, dirs |-> m.dirs, ran |-> m.ran]
        /\ prev' = Summary(outcome)
        /\ UNCHANGED <<game_path, folderExists, fmf, backups, now, last_action>>

NextMerge ==
    \/ call_copy_fmf_to_game /\ UNCHANGED scanVars

SpecMerge == InitMerge /\ [][NextMerge]_vars

MergeCalled(o) == o.op = "copy_fmf_to_game"

\* The files of the overlay whose copy failed in a call: the injected
\* failures and the files whose destination path was a directory.
CopyFailed(o) ==
    {f \in o.overlay.files : f \in o.failed \/ o.before[f] = Dir}

\* The mirrored path of a directory of the overlay was taken by a file.
DirBlocked(o) ==
    \E d \in o.overlay.dirs : o.before[d] # Absent /\ o.before[d] # Dir

\* What C16 promises of a call on an existing overlay.
MergedAllButFailed(o, t) ==
    /\ o.exc = <<>>
    /\ o.files = Cardinality(o.overlay.files \ CopyFailed(o))
    /\ o.dirs = Cardinality(o.overlay.dirs)
    /\ \A f \in o.overlay.files \ CopyFailed(o) : t[f] = FmfContent(f)
    /\ \A d \in o.overlay.dirs : t[d] = Dir

C18_MissingOverlayIsNoOp ==
    (MergeCalled(outcome) /\ ~outcome.overlay.exists) =>
        /\ outcome.exc = <<>>
        /\ outcome.files = 0 /\ outcome.dirs = 0
        /\ tree = outcome.before

\* C18 witness: a call without overlay folder on a destination that holds
\* files and a directory.
C18_Witness ==
    /\ MergeCalled(outcome)
    /\ ~outcome.overlay.exists
    /\ outcome.exc = <<>>
    /\ outcome.files = 0 /\ outcome.dirs = 0
    /\ tree["readme.txt"] = GameContent("readme.txt")
    /\ tree["a"] = Dir

(***************************************************************************)
(* find_mwc_candidates (specification SpecScan)                            *)
(***************************************************************************)
InitScan ==
    /\ fs \in Disks
    /\ next_root = 1
    /\ scan_pc = "submit"
    /\ futures = <<>>
    /\ checked = {}
    /\ candidates = <<>>
    /\ game_path = NoPath
    /\ folderExists = FALSE
    /\ tree = EmptyTree
    /\ fmf = [exists |-> FALSE, files |-> {}, dirs |-> {}]
    /\ backups = <<>>
    /\ now = 1
    /\ last_action = "None"
    /\ outcome = NoOutcome
    /\ prev = Summary(NoOutcome)

Future(path) ==
    [path |-> path, pc |-> "queued", evaluated |-> FALSE,
     result |-> NoResult, collected |-> FALSE]

\* The futures one root adds: one per entry that is a directory, in
\* enumeration order; BAD_DIRS is not consulted here.
RECURSIVE Submitted(_, _, _)
Submitted(r, entries, i) ==
    IF i > Len(entries) THEN <<>>
    ELSE (IF entries[i].kind = "dir" THEN <<Future(<<r, i>>)>> ELSE <<>>)
         \o Submitted(r, entries, i + 1)

\* Main thread, lines 193-199: enumerate one root and submit a fast_check
\* for every directory entry; a root that cannot be enumerated is passed over.
submit_root ==
    /\ scan_pc = "submit"
    /\ futures' = IF fs[next_root].listable
                  THEN futures \o Submitted(next_root, fs[next_root].entries, 1)
                  ELSE futures
    /\ next_root' = next_root + 1
    /\ scan_pc' = IF next_root = NumRoots THEN "collect" ELSE "submit"
    /\ UNCHANGED <<fs, checked, candidates>>

\* The directory a path of the forest names.
TopOf(p) == fs[p[1]].entries[p[2]]
NameOf(p) == IF Len(p) = 2 THEN TopOf(p).name ELSE TopOf(p).subs[p[3]].name

\* What Path.__eq__ and Path.__hash__ compare on Windows: the parts of the
\* path, case-folded.
PathKey(p) ==
    IF Len(p) = 2 THEN <<p[1], Lower(TopOf(p).name)>>
    ELSE IF Len(p) = 3 THEN <<p[1], Lower(TopOf(p).name), Lower(NameOf(p))>>
    ELSE <<p[1], Lower(TopOf(p).name), Lower(NameOf(p)), p[4]>>

Running == {k \in 1..Len(futures) : futures[k].pc = "passed"}

\* Worker, lines 145-146: the visited-set test.
worker_check(k) ==
    /\ futures[k].pc = "queued"
    /\ Cardinality(Running) < max_workers
    /\ futures' = [futures EXCEPT ![k].pc =
                      IF PathKey(futures[k].path) \in checked THEN "done" ELSE "passed"]
    /\ UNCHANGED <<fs, next_root, scan_pc, checked, candidates>>

\* Worker, lines 147-172: add the path to the visited set and test the
\* directory and its entries.
worker_run(k) ==
    /\ futures[k].pc = "passed"
    /\ checked' = checked \cup {PathKey(futures[k].path)}
    /\ futures' = [futures EXCEPT
                      ![k].pc = "done",
                      ![k].evaluated = TRUE,
                      ![k].result = LET p == futures[k].path
                                    IN fast_check_rest(p, TopOf(p))]
    /\ UNCHANGED <<fs, next_root, scan_pc, candidates>>

InList(x, list) == \E i \in 1..Len(list) : list[i] = x

\* "res in candidates": list membership by Path equality.
InCandidates(res, list) == \E i \in 1..Len(list) : PathKey(list[i]) = PathKey(res)

\* Lines 203-204 without the membership test.
append_unchecked(list, res) ==
    IF res # NoResult THEN Append(list, res) ELSE list

\* Lines 203-204: "if res and res not in candidates: candidates.append(res)".
append_result(list, res) ==
    IF res # NoResult /\ ~InCandidates(res, list) THEN Append(list, res) ELSE list

\* Main thread, lines 201-204: take a completed future (in completion
\* order, which is any order); f.result() re-raises what the call raised,
\* and the exception leaves find_mwc_candidates.
collect(k) ==
    /\ scan_pc = "collect"
    /\ futures[k].pc = "done"
    /\ ~futures[k].collected
    /\ futures' = [futures EXCEPT ![k].collected = TRUE]
    /\ IF futures[k].result = Raised
       THEN /\ scan_pc' = "raised"
            /\ UNCHANGED candidates
       ELSE /\ candidates' = append_result(candidates, futures[k].result)
            /\ UNCHANGED scan_pc
    /\ UNCHANGED <<fs, next_root, checked>>

\* Main thread, line 206: every future was taken, the list is returned.
return_candidates ==
    /\ scan_pc = "collect"
    /\ \A k \in 1..Len(futures) : futures[k].collected
    /\ scan_pc' = "done"
    /\ UNCHANGED <<fs, next_root, futures, checked, candidates>>

NextScan ==
    \/ submit_root /\ UNCHANGED handlerVars
    \/ \E k \in 1..Len(futures) : worker_check(k) /\ UNCHANGED handlerVars
    \/ \E k \in 1..Len(futures) : worker_run(k) /\ UNCHANGED handlerVars
    \/ \E k \in 1..Len(futures) : collect(k) /\ UNCHANGED handlerVars
    \/ return_candidates /\ UNCHANGED handlerVars

SpecScan == InitScan /\ [][NextScan]_vars

\* The executor runs every submitted call and the main thread keeps taking
\* completed futures: no enabled step of the scan is postponed forever.
InitScanFair ==
    /\ fs \in SmallDisks
    /\ next_root = 1
    /\ scan_pc = "submit"
    /\ futures = <<>>
    /\ checked = {}
    /\ candidates = <<>>
    /\ game_path = NoPath
    /\ folderExists = FALSE
    /\ tree = EmptyTree
    /\ fmf = [exists |-> FALSE, files |-> {}, dirs |-> {}]
    /\ backups = <<>>
    /\ now = 1
    /\ last_action = "None"
    /\ outcome = NoOutcome
    /\ prev = Summary(NoOutcome)

SpecScanFair == InitScanFair /\ [][NextScan]_vars /\ WF_vars(NextScan)

\* The scan of a forest in which two entries of a root can be equal as paths.
InitScanAlias ==
    /\ fs \in AliasDisks
    /\ next_root = 1
    /\ scan_pc = "submit"
    /\ futures = <<>>
    /\ checked = {}
    /\ candidates = <<>>
    /\ game_path = NoPath
    /\ folderExists = FALSE
    /\ tree = EmptyTree
    /\ fmf = [exists |-> FALSE, files |-> {}, dirs |-> {}]
    /\ backups = <<>>
    /\ now = 1
    /\ last_action = "None"
    /\ outcome = NoOutcome
    /\ prev = Summary(NoOutcome)

SpecScanAlias == InitScanAlias /\ [][NextScan]_vars

\* The scan of a forest with entries that cannot be looked into.
InitScanFault ==
    /\ fs \in FaultDisks
    /\ next_root = 1
    /\ scan_pc = "submit"
    /\ futures = <<>>
    /\ checked = {}
    /\ candidates = <<>>
    /\ game_path = NoPath
    /\ folderExists = FALSE
    /\ tree = EmptyTree
    /\ fmf = [exists |-> FALSE, files |-> {}, dirs |-> {}]
    /\ backups = <<>>
    /\ now = 1
    /\ last_action = "None"
    /\ outcome = NoOutcome
    /\ prev = Summary(NoOutcome)

SpecScanFault == InitScanFault /\ [][NextScan]_vars

\* C11: in every state of every interleaving of the workers and every
\* completion order, the list of candidates holds no path twice (no two
\* positions hold equal paths), so the list that is returned holds none.
C11_NoDuplicateCandidates ==
    \A c1, c2 \in 1..Len(candidates) :
        c1 # c2 => PathKey(candidates[c1]) # PathKey(candidates[c2])

\* C11 witness: two workers evaluated two entries that are equal as paths,
\* both returned the same installation, both futures were taken, and the
\* returned list holds it once.
C11_Witness ==
    /\ scan_pc = "done"
    /\ Len(candidates) = 1
    /\ \E k1, k2 \in 1..Len(futures) :
          /\ k1 # k2
          /\ futures[k1].result # NoResult /\ futures[k2].result # NoResult
          /\ PathKey(futures[k1].result) = PathKey(futures[k2].result)

\* A worker is past the visited-set test for its path, or has evaluated it.
Evaluates(k) == futures[k].pc = "passed" \/ futures[k].evaluated

\* C12 (as claimed): no two workers evaluate the same directory path: two
\* workers given equal paths never both pass the visited-set test.
C12_PathEvaluatedOnce ==
    \A k1, k2 \in 1..Len(futures) :
        (k1 # k2 /\ PathKey(futures[k1].path) = PathKey(futures[k2].path)) =>
            ~(Evaluates(k1) /\ Evaluates(k2))

\* What a complete scan of the forest finds under the roots that can be
\* enumerated: the result of the per-directory check of each directory entry.
Found ==
    UNION {{fast_check_rest(<<r, i>>, fs[r].entries[i]) :
               i \in {y \in 1..MaxTop : fs[r].entries[y].kind = "dir"}} :
           r \in {x \in Roots : fs[x].listable}} \ {NoResult}

\* A root, or a directory handed to a worker, that cannot be enumerated.
SomeUnlistable ==
    \/ \E r \in Roots : ~fs[r].listable
    \/ \E r \in Roots : \E i \in 1..MaxTop :
          /\ fs[r].listable
          /\ fs[r].entries[i].kind = "dir"
          /\ ~fs[r].entries[i].listable

ScanReturned == scan_pc = "done"

\* C13: whatever roots and directories cannot be enumerated, the scan
\* eventually returns, and the list it returns holds every candidate the
\* per-directory check finds under the roots that can be enumerated.
C13_UnlistableNeverAborts ==
    <>(ScanReturned /\ \A p \in Found : InList(p, candidates))

\* C13 witness: a scan that returned a candidate although a root or a
\* directory handed to a worker could not be enumerated.
C13_Witness ==
    /\ ScanReturned
    /\ SomeUnlistable
    /\ Len(candidates) >= 1

\* C14: every candidate is a directory handed to the per-directory check (a
\* supplied root of fast_check: an entry of a drive or library folder) or an
\* immediate child of one, and only such directories are ever evaluated:
\* nothing below the children is listed or tested however deep the tree is.
C14_DepthCapped ==
    /\ \A k \in 1..Len(futures) : Len(futures[k].path) = 2
    /\ \A c \in 1..Len(candidates) :
          LET p == candidates[c] IN
          /\ Len(p) \in {2, 3}
          /\ \E k \in 1..Len(futures) : futures[k].path = <<p[1], p[2]>>

\* C14 witness: a checked directory has an entry without markers that holds
\* an installation one level further down; the scan returned and did not
\* report it.
C14_Witness ==
    /\ scan_pc = "done"
    /\ \E k \in 1..Len(futures) :
          LET d == TopOf(futures[k].path) IN
          /\ futures[k].evaluated
          /\ futures[k].result = NoResult
          /\ \E j \in 1..Len(d.subs) : looks_like_mwc_folder(d.subs[j].nested)

\* C9 (as claimed): no candidate lies in a top-level directory with a
\* deny-listed name, and no candidate is itself an entry with a deny-listed
\* name of the directory that was checked.
C9_NoCandidateUnderDenyListedDir ==
    \A c \in 1..Len(candidates) :
        LET p == candidates[c] IN
        /\ ~DenyListed(NameOf(p))
        /\ Len(p) = 3 => ~DenyListed(TopOf(p).name)

\* The entries of a checked directory that the claim says are recorded.
Recordable(p) ==
    {Append(p, j) : j \in {i \in 1..Len(TopOf(p).subs) : SubMatches(TopOf(p).subs[i])}}

\* C10 (as claimed): when the scan has returned, for every directory that
\* was checked and is not itself a candidate, every entry of it that is a
\* directory, is not deny-listed, holds an executable marker and passes the
\* predicate is in the result.
C10_AllMatchingSubdirsRecorded ==
    scan_pc = "done" =>
        \A k \in 1..Len(futures) :
            LET p == futures[k].path IN
            (TopOf(p).listable /\ ~InList(p, candidates)) =>
                \A q \in Recordable(p) : InList(q, candidates)

(***************************************************************************)
(* Properties of the fix / revert handlers (specification Spec)            *)
(***************************************************************************)

PrimaryNamed(t) ==
    /\ Exists(t, exe_mwc) /\ Exists(t, data_mwc)
    /\ ~Exists(t, exe_msc) /\ ~Exists(t, data_msc)

AlternateNamed(t) ==
    /\ Exists(t, exe_msc) /\ Exists(t, data_msc)
    /\ ~Exists(t, exe_mwc) /\ ~Exists(t, data_mwc)

SameMarkers(t, u) == \A m \in Markers : t[m] = u[m]

FixSucceeded(o) == o.op = "fix" /\ o.dialog = FixDone
RevertSucceeded(o) == o.op = "revert" /\ o.dialog = Reverted

\* C1: a fix run whose backup failed (create_backup returned no path)
\* performs no rename and no overlay merge and leaves the tree as it was; a
\* fix run that renamed anything holds a backup made in that run, a complete
\* copy of the tree as it was before the run.
C1_FailedBackupBlocksRenames ==
    outcome.op = "fix" =>
        /\ outcome.backup = None =>
              /\ tree = outcome.before
              /\ outcome.renames = 0
              /\ ~outcome.merged
        /\ (outcome.renames > 0 \/ outcome.merged) =>
              /\ outcome.backup \in DOMAIN backups
              /\ backups[outcome.backup] = outcome.before

\* C1 witness: a valid primary-named tree whose backup failed: the fix run
\* ended with "Backup Failed" and the primary markers are still in place.
C1_Witness ==
    /\ outcome.op = "fix"
    /\ outcome.dialog = BackupFailed
    /\ PrimaryNamed(outcome.before)
    /\ PrimaryNamed(tree)

\* C2 (as claimed): after a fix or revert that reports success the root holds
\* exactly one executable marker and exactly one data-folder marker.
C2_SuccessLeavesOneOfEach ==
    (FixSucceeded(outcome) \/ RevertSucceeded(outcome)) =>
        /\ Exists(tree, exe_mwc) # Exists(tree, exe_msc)
        /\ Exists(tree, data_mwc) # Exists(tree, data_msc)

FirstRenameFailed(o) ==
    /\ o.dialog \in {RenameFailed, RevertFailed}
    /\ o.renames = 0
    /\ o.exc # <<>> /\ o.exc[2] \in {exe_mwc, exe_msc}

PartialTransform(o) ==
    /\ o.dialog \in {RenameFailed, RevertFailed}
    /\ o.renames = 1
    /\ o.exc # <<>> /\ o.exc[2] \in {data_mwc, data_msc}

\* C3 (as claimed): a run in which the executable was renamed and the rename
\* of the data folder failed ends with a condition different from the one a
\* run of the same handler ends with when the first rename itself fails.
C3_PartialFailureIsDistinct ==
    [][(/\ FirstRenameFailed(outcome)
        /\ PartialTransform(outcome')
        /\ outcome'.op = outcome.op) => outcome'.dialog # outcome.dialog]_vars

\* C4: in a revert run that reports success and directly follows a fix run
\* that reported success on a primary-named tree, the four markers are again
\* exactly what they were before the fix.
C4_FixThenRevertRestores ==
    [][(/\ FixSucceeded(outcome)
        /\ PrimaryNamed(outcome.before)
        /\ RevertSucceeded(outcome')) =>
            /\ SameMarkers(tree', outcome.before)
            /\ PrimaryNamed(tree')]_vars

\* C4 witness: a successful revert that directly followed a successful fix
\* and renamed both entries back: the primary names hold the original
\* contents again.
C4_Witness ==
    /\ prev = [op |-> "fix", dialog |-> FixDone]
    /\ RevertSucceeded(outcome)
    /\ outcome.renames = 2
    /\ tree[exe_mwc] = GameContent(exe_mwc)
    /\ tree[data_mwc] = GameContent(data_mwc)
    /\ ~Exists(tree, exe_msc) /\ ~Exists(tree, data_msc)

C6_FixLeavesNoPrimaryMarker ==
    FixSucceeded(outcome) =>
        /\ ~Exists(tree, exe_mwc)
        /\ ~Exists(tree, data_mwc)
        /\ Exists(outcome.before, exe_mwc) => tree[exe_msc] = outcome.before[exe_mwc]
        /\ Exists(outcome.before, data_mwc) => tree[data_msc] = outcome.before[data_mwc]

\* C6 witness: a successful fix that renamed both entries.
C6_Witness ==
    /\ FixSucceeded(outcome)
    /\ outcome.renames = 2
    /\ PrimaryNamed(outcome.before)
    /\ AlternateNamed(tree)

\* The predicate as the claim states it.
BothOfOneConvention(t) ==
    \/ Exists(t, exe_mwc) /\ Exists(t, data_mwc)
    \/ Exists(t, exe_msc) /\ Exists(t, data_msc)

\* C8: looks_like_mwc_folder is true exactly when the executable and the
\* data folder of one convention are both there: a fix run on a selected
\* folder is refused as "Not Valid" exactly when that fails (so for an empty
\* or missing folder and for a mismatched pair), and a browse warns only
\* when it fails.
C8_LooksLikeIffBothOfOneConvention ==
    /\ (outcome.op = "fix" /\ outcome.dialog # NoFolder) =>
          ((outcome.dialog = NotValid) <=> ~BothOfOneConvention(outcome.before))
    /\ (outcome.op = "browse" /\ outcome.dialog = BrowseWarning) =>
          ~BothOfOneConvention(outcome.before)

\* C8 witness: a fix refused on a mismatched pair (one convention's
\* executable with the other convention's data folder).
C8_Witness ==
    /\ outcome.op = "fix"
    /\ outcome.dialog = NotValid
    /\ Exists(outcome.before, exe_mwc) /\ Exists(outcome.before, data_msc)
    /\ ~Exists(outcome.before, exe_msc) /\ ~Exists(outcome.before, data_mwc)

\* A fix run that got as far as its rename block.
ReachedRenames(o) == o.op = "fix" /\ o.dialog \in {RenameFailed, FixDone, Unhandled}

\* A revert run that got as far as its rename block.
RevertRenamed(o) == o.op = "revert" /\ o.dialog \in {RevertFailed, Reverted}

\* C21: a revert run leaves Backups/ as it was and records no backup, and
\* it renames whether or not a backup is there; a fix run that reaches its
\* rename block has, in that same run, added to Backups/ a complete copy of
\* the folder as it was before the renames.
C21_RevertTakesNoBackup ==
    [][/\ outcome'.op = "revert" =>
             /\ backups' = backups
             /\ outcome'.backup = None
       /\ (RevertRenamed(outcome') /\ now' = now) =>
             \E faults \in RenameFaults : tree' = revert_renames(tree, faults).tree
       /\ (ReachedRenames(outcome') /\ now' = now) =>
             /\ outcome'.backup = now
             /\ now \notin DOMAIN backups
             /\ now \in DOMAIN backups'
             /\ backups'[now] = tree]_vars

\* C21 witness: a revert renamed both markers of an alternate-named folder
\* while Backups/ was empty, and Backups/ is still empty.
C21_Witness ==
    /\ RevertRenamed(outcome)
    /\ outcome.dialog = Reverted
    /\ outcome.renames = 2
    /\ outcome.before[exe_msc] # Absent
    /\ tree[exe_mwc] # Absent /\ tree[data_mwc] # Absent
    /\ backups = <<>>

\* The state a partial fix leaves: the executable alternate-named, the data
\* folder still primary-named.
MixedState(t) ==
    /\ Exists(t, exe_msc) /\ Exists(t, data_mwc)
    /\ ~Exists(t, exe_mwc) /\ ~Exists(t, data_msc)

\* C22: a fix run on a selected folder that does not hold the executable
\* and the data folder of one convention ends with the "Not Valid" warning
\* and changes nothing: the folder, Backups/, the overlay and the recorded
\* last action are what they were, and the run made no backup, no rename
\* and no merge.
C22_InvalidRootFixHasNoEffect ==
    [][(/\ outcome'.op = "fix"
        /\ now' = now
        /\ game_path # NoPath
        /\ ~BothOfOneConvention(tree)) =>
            /\ outcome'.dialog = NotValid
            /\ tree' = tree
            /\ backups' = backups
            /\ fmf' = fmf
            /\ last_action' = last_action
            /\ game_path' = game_path
            /\ outcome'.renames = 0
            /\ outcome'.backup = None
            /\ ~outcome'.merged]_vars

\* C22 witness: a fix whose second rename failed left the mixed state, and
\* the fix run after it was refused: the folder is still in the mixed
\* state, Backups/ holds the one backup of the first run and no action is
\* recorded.
C22_Witness ==
    /\ prev = [op |-> "fix", dialog |-> RenameFailed]
    /\ outcome.op = "fix"
    /\ outcome.dialog = NotValid
    /\ MixedState(outcome.before)
    /\ MixedState(tree)
    /\ DOMAIN backups = {1}
    /\ last_action = "None"

\* The directories handed to fast_check whose entries it enumerates: not a
\* match themselves, and listable.
Enumerated(r, i) ==
    /\ fs[r].listable
    /\ fs[r].entries[i].kind = "dir"
    /\ fs[r].entries[i].listable
    /\ ~(MatchesTarget(fs[r].entries[i].name) /\ looks_like_mwc_folder(fs[r].entries[i].tree))

\* Entry k of the directory is the first that passes the test, and the test
\* of an entry enumerated before it raises.
FirstValidAfterFailure(subs, k) ==
    /\ SubMatches(subs[k]) /\ ~TestRaises(subs[k])
    /\ \E j \in 1..(k - 1) : TestRaises(subs[j])
    /\ \A m \in 1..(k - 1) : ~SubMatches(subs[m]) \/ TestRaises(subs[m])

\* C23: when the scan has returned, every enumerated directory in which the
\* test of an entry raises and a later entry is the first valid installation
\* has that installation in the list of candidates: the failing entry was
\* skipped and the enumeration went on.
C23_FailingSubdirIsSkipped ==
    ScanReturned =>
        \A r \in Roots : \A i \in 1..Len(fs[r].entries) :
            Enumerated(r, i) =>
                \A k \in 1..Len(fs[r].entries[i].subs) :
                    FirstValidAfterFailure(fs[r].entries[i].subs, k) =>
                        InList(<<r, i, k>>, candidates)

\* The list find_mwc_candidates returns when the submitted calls run one
\* after another in submission order and are collected in that order: one
\* schedule of the executor among all.
RECURSIVE SequentialScan(_, _, _, _)
SequentialScan(calls, k, seen, list) ==
    IF k > Len(calls) THEN list
    ELSE LET p == calls[k].path IN
         IF PathKey(p) \in seen
         THEN SequentialScan(calls, k + 1, seen, list)
         ELSE SequentialScan(calls, k + 1, seen \cup {PathKey(p)},
                             append_result(list, fast_check_rest(p, TopOf(p))))

\* The candidates of a list, as the set of paths Path equality tells apart.
CandidateSet(list) == {PathKey(list[i]) : i \in 1..Len(list)}

\* C24: whatever the interleaving of the workers and the order in which
\* their calls complete, the list that is returned holds the same set of
\* paths as the list of the run in which the calls execute one after
\* another: the set of candidates depends on the filesystem alone.
C24_SameSetForEverySchedule ==
    ScanReturned =>
        CandidateSet(candidates) = CandidateSet(SequentialScan(futures, 1, {}, <<>>))

\* The executable is alternate-named and the data folder is still
\* primary-named: what a fix leaves whose first rename succeeded and whose
\* second rename failed.
PartlyFixed(t) ==
    /\ Exists(t, exe_msc) /\ ~Exists(t, exe_mwc)
    /\ Exists(t, data_mwc)

\* C25: a revert run that starts from a partly fixed folder and ends with
\* "Reverted" leaves the folder primary-named: mywintercar.exe is the entry
\* that was mysummercar.exe, mywintercar_Data is the entry that was already
\* there, no alternate marker remains; the run records no backup and
\* Backups/ is what it was.
C25_RevertRepairsPartialFix ==
    [][(/\ PartlyFixed(tree)
        /\ RevertSucceeded(outcome')
        /\ now' = now) =>
            /\ PrimaryNamed(tree')
            /\ tree'[exe_mwc] = tree[exe_msc]
            /\ tree'[data_mwc] = tree[data_mwc]
            /\ outcome'.backup = None
            /\ backups' = backups]_vars

\* C25 witness: the second rename of a fix failed, and the revert run right
\* after it made one rename and left the folder primary-named.
C25_Witness ==
    /\ prev = [op |-> "fix", dialog |-> RenameFailed]
    /\ RevertSucceeded(outcome)
    /\ PartlyFixed(outcome.before)
    /\ outcome.renames = 1
    /\ PrimaryNamed(tree)
    /\ DOMAIN backups = {1}

====
